---- MODULE Spec2Model ----
(***************************************************************************)
(* Model of scripts/scrapper.py: the catalog walk (scrape_individual_tests *)
(* calling fetch_page), the per-row extraction, and the __main__ block     *)
(* that saves the result as JSON and CSV.                                  *)
(*                                                                         *)
(* The web site is the environment.  A catalog maps every page offset to   *)
(* what the site does for it: how many GET attempts fail before one        *)
(* succeeds, and the markup the successful attempt delivers.               *)
(***************************************************************************)
EXTENDS Integers, Sequences, FiniteSets, TLC

(***************************************************************************)
(* Program constants and model bounds                                      *)
(***************************************************************************)
PageSize == 12
Retries == 3
MaxPages == 2
MaxRows == 2

Min(a, b) == IF a < b THEN a ELSE b

Last(s) == s[Len(s)]

(***************************************************************************)
(* Text: a string is a sequence of characters; str.strip()                 *)
(***************************************************************************)
Whitespace == {" ", "\n"}

RECURSIVE LStrip(_)
LStrip(s) ==
  IF s # <<>> /\ Head(s) \in Whitespace THEN LStrip(Tail(s)) ELSE s

RECURSIVE RStrip(_)
RStrip(s) ==
  IF s # <<>> /\ Last(s) \in Whitespace
    THEN RStrip(SubSeq(s, 1, Len(s) - 1))
    ELSE s

Strip(s) == RStrip(LStrip(s))

(***************************************************************************)
(* URLs.  A URL is [scheme, netloc, path]; path is the list of its         *)
(* '/'-separated segments, as str.split('/') gives it ("" is <<"">>,       *)
(* "/a" is <<"", "a">>).  urljoin follows urllib.parse.urljoin.            *)
(***************************************************************************)
BASE_URL == [scheme |-> "https", netloc |-> "www.shl.com", path |-> <<"">>]

uses_relative == {"", "http", "https", "ftp", "file"}

uses_netloc == {"", "http", "https", "ftp", "file"}

\* urlsplit rejects a netloc with an unmatched bracket (ValueError)
Parseable(url) == url.netloc # "["

RECURSIVE ResolveDots(_, _)
ResolveDots(segments, resolved_path) ==
  IF segments = <<>> THEN resolved_path
  ELSE IF Head(segments) = ".."
    THEN ResolveDots(Tail(segments),
           IF resolved_path # <<>>
             THEN SubSeq(resolved_path, 1, Len(resolved_path) - 1)
             ELSE resolved_path)
  ELSE IF Head(segments) = "."
    THEN ResolveDots(Tail(segments), resolved_path)
  ELSE ResolveDots(Tail(segments), Append(resolved_path, Head(segments)))

\* segments[1:-1] = filter(None, segments[1:-1])
DropEmptyInner(segments) ==
  IF Len(segments) < 3 THEN segments
  ELSE <<Head(segments)>>
       \o SelectSeq(SubSeq(segments, 2, Len(segments) - 1), LAMBDA x : x # "")
       \o <<Last(segments)>>

\* urlunparse puts a '/' in front of a path that follows a netloc
Unparse(path) == IF Head(path) # "" THEN <<"">> \o path ELSE path

JoinPath(bpath, path) ==
  LET base_parts == IF Last(bpath) # ""
                      THEN SubSeq(bpath, 1, Len(bpath) - 1)
                      ELSE bpath
      segments == IF Head(path) = "" /\ Len(path) > 1
                    THEN path
                    ELSE DropEmptyInner(base_parts \o path)
      resolved_path == ResolveDots(segments, <<>>)
      closed == IF Last(segments) \in {".", ".."}
                  THEN Append(resolved_path, "")
                  ELSE resolved_path
  IN  IF closed \in {<<>>, <<"">>} THEN <<"", "">> ELSE Unparse(closed)

urljoin_nojoin(base, url) == url

urljoin(base, url) ==
  LET scheme == IF url.scheme = "" THEN base.scheme ELSE url.scheme
  IN  IF url.scheme = "" /\ url.netloc = "" /\ url.path = <<"">> THEN base
      ELSE IF scheme # base.scheme \/ scheme \notin uses_relative THEN url
      ELSE IF scheme \in uses_netloc /\ url.netloc # ""
        THEN [scheme |-> scheme, netloc |-> url.netloc, path |-> url.path]
      ELSE IF url.path = <<"">>
        THEN [scheme |-> scheme, netloc |-> base.netloc, path |-> base.path]
      ELSE [scheme |-> scheme, netloc |-> base.netloc,
            path |-> JoinPath(base.path, url.path)]

IsAbsolute(url) == url.scheme # ""

(***************************************************************************)
(* Markup.  A row is a tr[data-entity-id]; of it the program reads the     *)
(* entity id, the title cell and its link, the general-info cells (each    *)
(* TRUE when it holds a ".-yes" element) and the key tags.                 *)
(***************************************************************************)
NoUrl == [scheme |-> "", netloc |-> "", path |-> <<"">>]

NoLink == [present |-> FALSE, text |-> <<>>, hasHref |-> FALSE, href |-> NoUrl]

LinkTexts == {<<>>, <<" ">>, <<"a">>, <<" ", "a", " ">>}

Hrefs ==
  { NoUrl,
    [scheme |-> "", netloc |-> "", path |-> <<"..", "a">>],
    [scheme |-> "", netloc |-> "", path |-> <<"", "a", "b">>],
    [scheme |-> "", netloc |-> "h", path |-> <<"", "a">>],
    [scheme |-> "mailto", netloc |-> "", path |-> <<"a">>],
    [scheme |-> "", netloc |-> "[", path |-> <<"">>] }

Links ==
  {NoLink}
  \cup { [present |-> TRUE, text |-> t, hasHref |-> FALSE, href |-> NoUrl] :
           t \in LinkTexts }
  \cup { [present |-> TRUE, text |-> t, hasHref |-> TRUE, href |-> h] :
           t \in LinkTexts, h \in Hrefs }

Cells ==
  UNION { [1..n -> BOOLEAN] : n \in 0..2 } \cup { <<FALSE, TRUE, TRUE>> }

TagLists ==
  { <<>>, <<<<"B", " ">>>>, <<<<" ", "A">>, <<"B">>, <<"A">>>> }

RowSpace ==
  { [entityId |-> "e9", titleCell |-> FALSE, link |-> NoLink,
     cols |-> c, tags |-> g] : c \in Cells, g \in TagLists }
  \cup { [entityId |-> "e9", titleCell |-> TRUE, link |-> l,
          cols |-> c, tags |-> g] : l \in Links, c \in Cells, g \in TagLists }

GoodRow ==
  [entityId |-> "e1", titleCell |-> TRUE,
   link |-> [present |-> TRUE, text |-> <<"a">>, hasHref |-> TRUE,
             href |-> [scheme |-> "", netloc |-> "", path |-> <<"", "a">>]],
   cols |-> <<TRUE, FALSE>>, tags |-> <<<<"A">>>>]

OtherRow ==
  [entityId |-> "e3", titleCell |-> TRUE,
   link |-> [present |-> TRUE, text |-> <<"b", " ">>, hasHref |-> TRUE,
             href |-> [scheme |-> "", netloc |-> "", path |-> <<"b">>]],
   cols |-> <<FALSE, TRUE>>, tags |-> <<>>]

BadRow ==
  [entityId |-> "e2", titleCell |-> TRUE, link |-> NoLink,
   cols |-> <<TRUE, FALSE>>, tags |-> <<>>]

(***************************************************************************)
(* Row extraction, lines 51-71.  The result names the exception the row    *)
(* raises ("" when none) and the record appended otherwise.                *)
(***************************************************************************)
NoRecord ==
  [entityId |-> "", name |-> <<>>, url |-> NoUrl, remoteTesting |-> FALSE,
   adaptiveIrt |-> FALSE, testTypes |-> <<>>]

\* row.select_one("td.custom__table-heading__title a")
TitleTag(row) == IF row.titleCell THEN row.link ELSE NoLink

Raises(name) == [exc |-> name, rec |-> NoRecord]

ExtractRow_thirdcol(row) ==
  LET title_tag == TitleTag(row)
  IN  IF ~title_tag.present THEN Raises("AttributeError")
      ELSE IF ~title_tag.hasHref THEN Raises("KeyError")
      ELSE IF ~Parseable(title_tag.href) THEN Raises("ValueError")
      ELSE IF Len(row.cols) < 3 THEN Raises("IndexError")
      ELSE [exc |-> "",
            rec |-> [entityId |-> row.entityId,
                     name |-> Strip(title_tag.text),
                     url |-> urljoin(BASE_URL, title_tag.href),
                     remoteTesting |-> row.cols[2],
                     adaptiveIrt |-> row.cols[3],
                     testTypes |-> [i \in 1..Len(row.tags) |-> Strip(row.tags[i])]]]

\* the texts of a list without the repetitions of an earlier one
RECURSIVE Dedup(_)
Dedup(x) ==
  IF x = <<>> THEN <<>>
  ELSE LET rest == Dedup(SubSeq(x, 1, Len(x) - 1))
       IN  IF \E i \in 1..Len(rest) : rest[i] = Last(x)
             THEN rest
             ELSE Append(rest, Last(x))

ExtractRow_dedup(row) ==
  LET title_tag == TitleTag(row)
  IN  IF ~title_tag.present THEN Raises("AttributeError")
      ELSE IF ~title_tag.hasHref THEN Raises("KeyError")
      ELSE IF ~Parseable(title_tag.href) THEN Raises("ValueError")
      ELSE IF Len(row.cols) < 2 THEN Raises("IndexError")
      ELSE [exc |-> "",
            rec |-> [entityId |-> row.entityId,
                     name |-> Strip(title_tag.text),
                     url |-> urljoin(BASE_URL, title_tag.href),
                     remoteTesting |-> row.cols[1],
                     adaptiveIrt |-> row.cols[2],
                     testTypes |->
                       Dedup([i \in 1..Len(row.tags) |-> Strip(row.tags[i])])]]

ExtractRow_swapped(row) ==
  LET title_tag == TitleTag(row)
  IN  IF ~title_tag.present THEN Raises("AttributeError")
      ELSE IF ~title_tag.hasHref THEN Raises("KeyError")
      ELSE IF ~Parseable(title_tag.href) THEN Raises("ValueError")
      ELSE IF Len(row.cols) < 2 THEN Raises("IndexError")
      ELSE [exc |-> "",
            rec |-> [entityId |-> row.entityId,
                     name |-> Strip(title_tag.text),
                     url |-> urljoin(BASE_URL, title_tag.href),
                     remoteTesting |-> row.cols[2],
                     adaptiveIrt |-> row.cols[1],
                     testTypes |-> [i \in 1..Len(row.tags) |-> Strip(row.tags[i])]]]

ExtractRow(row) ==
  LET title_tag == TitleTag(row)
  IN  IF ~title_tag.present THEN Raises("AttributeError")
      ELSE IF ~title_tag.hasHref THEN Raises("KeyError")
      ELSE IF ~Parseable(title_tag.href) THEN Raises("ValueError")
      ELSE IF Len(row.cols) < 1 THEN Raises("IndexError")
      ELSE IF Len(row.cols) < 2 THEN Raises("IndexError")
      ELSE [exc |-> "",
            rec |-> [entityId |-> row.entityId,
                     name |-> Strip(title_tag.text),
                     url |-> urljoin(BASE_URL, title_tag.href),
                     remoteTesting |-> row.cols[1],
                     adaptiveIrt |-> row.cols[2],
                     testTypes |-> [i \in 1..Len(row.tags) |-> Strip(row.tags[i])]]]

(***************************************************************************)
(* The site.  A page is what one offset answers: `fails` GET attempts      *)
(* fail before one succeeds (Retries and more: none succeeds within the    *)
(* budget), and the successful attempt delivers `html`.  Markup is empty   *)
(* (res.text = ""), or holds rows and maybe a next-page control.           *)
(***************************************************************************)
None == [isNone |-> TRUE, empty |-> TRUE, rows |-> <<>>, next |-> FALSE]

EmptyText == [isNone |-> FALSE, empty |-> TRUE, rows |-> <<>>, next |-> FALSE]

Markup(rs, nx) == [isNone |-> FALSE, empty |-> FALSE, rows |-> rs, next |-> nx]

Offsets == { PageSize * k : k \in 0..(MaxPages - 1) }

DownPage == [fails |-> Retries, html |-> EmptyText]

LastPage == [fails |-> 0, html |-> Markup(<<>>, FALSE)]

WalkRows == { <<>>, <<GoodRow>>, <<BadRow>>, <<OtherRow, GoodRow>> }

\* a page that would need more attempts than fetch_page makes
DeadPage == [fails |-> Retries + 1, html |-> EmptyText]

WalkPages ==
  {DownPage, DeadPage}
  \cup { [fails |-> f, html |-> h] :
           f \in 0..(Retries - 1),
           h \in {EmptyText} \cup { Markup(rs, nx) : rs \in WalkRows, nx \in BOOLEAN } }

\* catalogs of several pages, for the walk
WalkCatalogs == [Offsets -> WalkPages]

GoodPrefixes == { [i \in 1..n |-> GoodRow] : n \in 0..(MaxRows - 1) }

\* catalogs whose first page ends with any row of RowSpace, for the extraction
RowCatalogs ==
  { [o \in Offsets |->
       IF o = 0 THEN [fails |-> 0, html |-> Markup(Append(pre, r), nx)]
                ELSE LastPage] :
      pre \in GoodPrefixes, r \in RowSpace, nx \in BOOLEAN }

(***************************************************************************)
(* Output forms, lines 86-93                                               *)
(***************************************************************************)
Fields ==
  <<"entityId", "name", "url", "remoteTesting", "adaptiveIrt", "testTypes">>

\* json.dump writes each dict as its key/value pairs in insertion order
JsonObject(rec) ==
  << <<"entityId", rec.entityId>>, <<"name", rec.name>>, <<"url", rec.url>>,
     <<"remoteTesting", rec.remoteTesting>>, <<"adaptiveIrt", rec.adaptiveIrt>>,
     <<"testTypes", rec.testTypes>> >>

JsonDump(data) == [i \in 1..Len(data) |-> JsonObject(data[i])]

\* ",".join(x)
RECURSIVE Join(_)
Join(x) ==
  IF x = <<>> THEN <<>>
  ELSE IF Len(x) = 1 THEN Head(x)
  ELSE Head(x) \o <<",">> \o Join(Tail(x))

\* pd.DataFrame(data).columns: the keys of the dicts; none for an empty list
Columns(data) == IF data = <<>> THEN <<>> ELSE Fields

HasColumn(columns, c) == \E i \in 1..Len(columns) : columns[i] = c

CsvRow(rec) ==
  <<rec.entityId, rec.name, rec.url, rec.remoteTesting, rec.adaptiveIrt,
    Join(rec.testTypes)>>

NoJson == [written |-> FALSE, body |-> <<>>]

NoCsv == [written |-> FALSE, header |-> <<>>, body |-> <<>>]

(***************************************************************************)
(* State                                                                   *)
(***************************************************************************)
VARIABLES
  catalog,    \* the site: offset -> page
  pc,         \* where the program is
  start,      \* scrape_individual_tests: start
  results,    \* scrape_individual_tests: results
  html,       \* what fetch_page returned
  rows,       \* soup.select("tr[data-entity-id]")
  rowIdx,     \* position of the for loop over rows
  attempt,    \* fetch_page: attempt
  gets,       \* session.get calls made by the current fetch_page call
  failed,     \* failed attempts seen by the current fetch_page call
  lastError,  \* exception class of the last failed attempt
  diags,      \* "Network error" lines printed by the current fetch_page call
  waits,      \* time.sleep(5) calls made by the current fetch_page call
  pauses,     \* time.sleep(2) calls since the last call of fetch_page
  pauseLog,   \* for each offset visited, the pauses made just before it
  skips,      \* "Skipping page" lines printed
  visited,    \* offsets passed to fetch_page, in order
  endedBy,    \* which break left the while loop
  exc,        \* exception that escaped to the interpreter ("" when none)
  returned,   \* scrape_individual_tests returned to __main__
  data,       \* __main__: data
  jsonFile,   \* shl_individual_assignments.json
  csvFile,    \* shl_individual_assignments.csv
  summary     \* the count printed by the last line (-1: not printed)

vars ==
  <<catalog, pc, start, results, html, rows, rowIdx, attempt, gets, failed,
    lastError, diags, waits, pauses, pauseLog, skips, visited, endedBy, exc,
    returned, data, jsonFile, csvFile, summary>>

walkVars ==
  <<start, results, html, rows, rowIdx, visited, endedBy, pauses, pauseLog,
    skips>>

fetchVars == <<attempt, gets, failed, lastError, diags, waits>>

paceVars == <<pauses, pauseLog, skips>>

mainVars == <<returned, data, jsonFile, csvFile, summary>>

\* an offset the catalog does not list answers every GET with an error status
PageAt(o) == IF o \in DOMAIN catalog THEN catalog[o] ELSE DownPage

Truthy_notnone(h) == ~h.isNone

\* `not html` is false for a non-empty string only
Truthy(h) == ~h.isNone /\ ~h.empty

InitState ==
  /\ pc = "loop"
  /\ start = 0
  /\ results = <<>>
  /\ html = None
  /\ rows = <<>>
  /\ rowIdx = 0
  /\ attempt = 0
  /\ gets = 0
  /\ failed = 0
  /\ lastError = ""
  /\ diags = 0
  /\ waits = 0
  /\ pauses = 0
  /\ pauseLog = <<>>
  /\ skips = 0
  /\ visited = <<>>
  /\ endedBy = ""
  /\ exc = ""
  /\ returned = FALSE
  /\ data = <<>>
  /\ jsonFile = NoJson
  /\ csvFile = NoCsv
  /\ summary = -1

Init == catalog \in (WalkCatalogs \cup RowCatalogs) /\ InitState

(***************************************************************************)
(* fetch_page, lines 18-27                                                 *)
(***************************************************************************)
\* what a failing attempt raises: session.get (Timeout, ConnectionError) or
\* res.raise_for_status() (HTTPError)
FailureKinds == {"Timeout", "ConnectionError", "HTTPError"}

RequestException_httponly == {"HTTPError"}

\* the classes `except requests.exceptions.RequestException` catches
RequestException == {"Timeout", "ConnectionError", "HTTPError"}

\* lines 35-38: build the url and call fetch_page
CallFetch ==
  /\ pc = "loop"
  /\ start < PageSize * MaxPages
  /\ visited' = Append(visited, start)
  /\ attempt' = 0
  /\ gets' = 0
  /\ failed' = 0
  /\ lastError' = ""
  /\ diags' = 0
  /\ waits' = 0
  /\ pauseLog' = Append(pauseLog, pauses)
  /\ pauses' = 0
  /\ skips' = skips
  /\ pc' = "fetch"
  /\ UNCHANGED <<catalog, start, results, html, rows, rowIdx, endedBy, exc>>
  /\ UNCHANGED mainVars

\* lines 21-23: the attempt succeeds and its text is returned
AttemptOk ==
  /\ pc = "fetch"
  /\ attempt < Retries
  /\ attempt >= PageAt(start).fails
  /\ gets' = gets + 1
  /\ html' = PageAt(start).html
  /\ pc' = "check"
  /\ UNCHANGED <<catalog, start, results, rows, rowIdx, attempt, failed,
                 lastError, diags, waits, visited, endedBy, exc>>
  /\ UNCHANGED mainVars
  /\ UNCHANGED paceVars

AttemptFails_nolastwait ==
  /\ pc = "fetch"
  /\ attempt < Retries
  /\ attempt < PageAt(start).fails
  /\ \E kind \in FailureKinds :
       /\ gets' = gets + 1
       /\ lastError' = kind
       /\ IF kind \in RequestException
            THEN /\ failed' = failed + 1
                 /\ diags' = diags + 1
                 /\ waits' = IF attempt < Retries - 1 THEN waits + 1 ELSE waits
                 /\ attempt' = attempt + 1
                 /\ pc' = "fetch"
                 /\ exc' = exc
            ELSE /\ pc' = "raised"
                 /\ exc' = kind
                 /\ UNCHANGED <<failed, attempt, diags, waits>>
  /\ UNCHANGED <<catalog, start, results, html, rows, rowIdx, visited, endedBy>>
  /\ UNCHANGED mainVars
  /\ UNCHANGED paceVars

\* lines 21-26: the attempt raises; a RequestException is reported, slept on
\* and the loop goes on, anything else leaves fetch_page
AttemptFails ==
  /\ pc = "fetch"
  /\ attempt < Retries
  /\ attempt < PageAt(start).fails
  /\ \E kind \in FailureKinds :
       /\ gets' = gets + 1
       /\ lastError' = kind
       /\ IF kind \in RequestException
            THEN /\ failed' = failed + 1
                 /\ diags' = diags + 1
                 /\ waits' = waits + 1
                 /\ attempt' = attempt + 1
                 /\ pc' = "fetch"
                 /\ exc' = exc
            ELSE /\ pc' = "raised"
                 /\ exc' = kind
                 /\ UNCHANGED <<failed, attempt, diags, waits>>
  /\ UNCHANGED <<catalog, start, results, html, rows, rowIdx, visited, endedBy>>
  /\ UNCHANGED mainVars
  /\ UNCHANGED paceVars

\* line 27: the range is exhausted
GiveUp ==
  /\ pc = "fetch"
  /\ attempt >= Retries
  /\ html' = None
  /\ pc' = "check"
  /\ UNCHANGED <<catalog, start, results, rows, rowIdx, visited, endedBy, exc>>
  /\ UNCHANGED fetchVars
  /\ UNCHANGED mainVars
  /\ UNCHANGED paceVars

(***************************************************************************)
(* scrape_individual_tests, lines 30-80                                    *)
(***************************************************************************)
SkipPage_stay ==
  /\ pc = "check"
  /\ ~Truthy(html)
  /\ pc' = "loop"
  /\ UNCHANGED <<catalog, start, results, html, rows, rowIdx, visited, endedBy, exc>>
  /\ UNCHANGED fetchVars
  /\ UNCHANGED mainVars
  /\ skips' = skips + 1
  /\ UNCHANGED <<pauses, pauseLog>>

SkipPage_abandon ==
  /\ pc = "check"
  /\ ~Truthy(html)
  /\ start' = start + PageSize
  /\ endedBy' = "failure"
  /\ pc' = "return"
  /\ UNCHANGED <<catalog, results, html, rows, rowIdx, visited, exc>>
  /\ UNCHANGED fetchVars
  /\ UNCHANGED mainVars
  /\ skips' = skips + 1
  /\ UNCHANGED <<pauses, pauseLog>>

\* lines 39-42: `if not html`: skip the page
SkipPage ==
  /\ pc = "check"
  /\ ~Truthy(html)
  /\ start' = start + PageSize
  /\ pc' = "loop"
  /\ UNCHANGED <<catalog, results, html, rows, rowIdx, visited, endedBy, exc>>
  /\ UNCHANGED fetchVars
  /\ UNCHANGED mainVars
  /\ skips' = skips + 1
  /\ UNCHANGED <<pauses, pauseLog>>

SelectRows_nobreak ==
  /\ pc = "check"
  /\ Truthy(html)
  /\ rows' = html.rows
  /\ rowIdx' = 1
  /\ IF html.rows = <<>>
       THEN pc' = "loop" /\ start' = start + PageSize
       ELSE pc' = "rows" /\ start' = start
  /\ UNCHANGED <<catalog, results, html, visited, endedBy, exc>>
  /\ UNCHANGED fetchVars
  /\ UNCHANGED mainVars
  /\ UNCHANGED paceVars

\* lines 44-48: parse, select the rows, leave the loop when there are none
SelectRows ==
  /\ pc = "check"
  /\ Truthy(html)
  /\ rows' = html.rows
  /\ rowIdx' = 1
  /\ IF html.rows = <<>>
       THEN pc' = "return" /\ endedBy' = "no_rows"
       ELSE pc' = "rows" /\ endedBy' = endedBy
  /\ UNCHANGED <<catalog, start, results, html, visited, exc>>
  /\ UNCHANGED fetchVars
  /\ UNCHANGED mainVars
  /\ UNCHANGED paceVars

ExtractStep_skip ==
  /\ pc = "rows"
  /\ rowIdx <= Len(rows)
  /\ LET r == ExtractRow(rows[rowIdx])
     IN  /\ results' = IF r.exc = "" THEN Append(results, r.rec) ELSE results
         /\ rowIdx' = rowIdx + 1
  /\ UNCHANGED <<catalog, pc, start, html, rows, visited, endedBy, exc>>
  /\ UNCHANGED fetchVars
  /\ UNCHANGED mainVars
  /\ UNCHANGED paceVars

ExtractStep_prepend ==
  /\ pc = "rows"
  /\ rowIdx <= Len(rows)
  /\ LET r == ExtractRow(rows[rowIdx])
     IN  IF r.exc = ""
           THEN /\ results' = <<r.rec>> \o results
                /\ rowIdx' = rowIdx + 1
                /\ UNCHANGED <<pc, exc>>
           ELSE /\ pc' = "raised"
                /\ exc' = r.exc
                /\ UNCHANGED <<results, rowIdx>>
  /\ UNCHANGED <<catalog, start, html, rows, visited, endedBy>>
  /\ UNCHANGED fetchVars
  /\ UNCHANGED mainVars
  /\ UNCHANGED paceVars

\* lines 50-71: one pass of the for loop; an exception is not handled
\* anywhere and ends the program
ExtractStep ==
  /\ pc = "rows"
  /\ rowIdx <= Len(rows)
  /\ LET r == ExtractRow(rows[rowIdx])
     IN  IF r.exc = ""
           THEN /\ results' = Append(results, r.rec)
                /\ rowIdx' = rowIdx + 1
                /\ UNCHANGED <<pc, exc>>
           ELSE /\ pc' = "raised"
                /\ exc' = r.exc
                /\ UNCHANGED <<results, rowIdx>>
  /\ UNCHANGED <<catalog, start, html, rows, visited, endedBy>>
  /\ UNCHANGED fetchVars
  /\ UNCHANGED mainVars
  /\ UNCHANGED paceVars

NextPage_nopause ==
  /\ pc = "rows"
  /\ rowIdx > Len(rows)
  /\ IF ~html.next
       THEN /\ pc' = "return"
            /\ endedBy' = "no_next"
            /\ start' = start
       ELSE /\ pc' = "loop"
            /\ endedBy' = endedBy
            /\ start' = start + PageSize
  /\ UNCHANGED <<catalog, results, html, rows, rowIdx, visited, exc>>
  /\ UNCHANGED fetchVars
  /\ UNCHANGED mainVars
  /\ UNCHANGED paceVars

NextPage_always ==
  /\ pc = "rows"
  /\ rowIdx > Len(rows)
  /\ pc' = "loop"
  /\ start' = start + PageSize
  /\ UNCHANGED <<catalog, results, html, rows, rowIdx, visited, endedBy, exc>>
  /\ UNCHANGED fetchVars
  /\ UNCHANGED mainVars
  /\ pauses' = pauses + 1
  /\ UNCHANGED <<pauseLog, skips>>

NextPage_inverted ==
  /\ pc = "rows"
  /\ rowIdx > Len(rows)
  /\ IF html.next
       THEN /\ pc' = "return"
            /\ endedBy' = "no_next"
            /\ UNCHANGED <<start, pauses>>
       ELSE /\ pc' = "loop"
            /\ endedBy' = endedBy
            /\ start' = start + PageSize
            /\ pauses' = pauses + 1
  /\ UNCHANGED <<catalog, results, html, rows, rowIdx, visited, exc>>
  /\ UNCHANGED fetchVars
  /\ UNCHANGED mainVars
  /\ UNCHANGED <<pauseLog, skips>>

\* lines 73-78: after the rows, leave the loop when the page has no
\* next-page control, else advance and pause
NextPage ==
  /\ pc = "rows"
  /\ rowIdx > Len(rows)
  /\ IF ~html.next
       THEN /\ pc' = "return"
            /\ endedBy' = "no_next"
            /\ UNCHANGED <<start, pauses>>
       ELSE /\ pc' = "loop"
            /\ endedBy' = endedBy
            /\ start' = start + PageSize
            /\ pauses' = pauses + 1
  /\ UNCHANGED <<catalog, results, html, rows, rowIdx, visited, exc>>
  /\ UNCHANGED fetchVars
  /\ UNCHANGED mainVars
  /\ UNCHANGED <<pauseLog, skips>>

\* lines 80 and 84: return results; data = scrape_individual_tests()
Return ==
  /\ pc = "return"
  /\ returned' = TRUE
  /\ data' = results
  /\ pc' = "save_json"
  /\ UNCHANGED <<catalog, exc, jsonFile, csvFile, summary>>
  /\ UNCHANGED walkVars
  /\ UNCHANGED fetchVars

(***************************************************************************)
(* __main__, lines 83-95                                                   *)
(***************************************************************************)
\* lines 87-88
SaveJson ==
  /\ pc = "save_json"
  /\ jsonFile' = [written |-> TRUE, body |-> JsonDump(data)]
  /\ pc' = "save_csv"
  /\ UNCHANGED <<catalog, exc, returned, data, csvFile, summary>>
  /\ UNCHANGED walkVars
  /\ UNCHANGED fetchVars

\* lines 91-93: df["testTypes"] raises KeyError when the frame has no such
\* column
SaveCsv ==
  /\ pc = "save_csv"
  /\ LET columns == Columns(data)
     IN  IF HasColumn(columns, "testTypes")
           THEN /\ csvFile' = [written |-> TRUE, header |-> columns,
                               body |-> [i \in 1..Len(data) |-> CsvRow(data[i])]]
                /\ pc' = "print"
                /\ exc' = exc
           ELSE /\ pc' = "raised"
                /\ exc' = "KeyError"
                /\ csvFile' = csvFile
  /\ UNCHANGED <<catalog, returned, data, jsonFile, summary>>
  /\ UNCHANGED walkVars
  /\ UNCHANGED fetchVars

\* line 95
PrintSummary ==
  /\ pc = "print"
  /\ summary' = Len(data)
  /\ pc' = "exit"
  /\ UNCHANGED <<catalog, exc, returned, data, jsonFile, csvFile>>
  /\ UNCHANGED walkVars
  /\ UNCHANGED fetchVars

Next ==
  \/ CallFetch
  \/ AttemptOk
  \/ AttemptFails
  \/ GiveUp
  \/ SkipPage
  \/ SelectRows
  \/ ExtractStep
  \/ NextPage
  \/ Return
  \/ SaveJson
  \/ SaveCsv
  \/ PrintSummary

Spec == Init /\ [][Next]_vars

\* the interpreter runs the program on: a step that can be taken is taken
FairSpec == Spec /\ WF_vars(Next)

(***************************************************************************)
(* Properties                                                              *)
(***************************************************************************)
InWalk == pc \in {"loop", "fetch", "check", "rows"}

\* C1: the offsets passed to fetch_page are 0, 12, 24, ...: each is exactly
\* PageSize more than the one before it, after a fetched page and after a
\* failed one alike, and none is requested twice.
C1_OffsetsAdvanceByPageSize ==
  \A k \in 1..Len(visited) : visited[k] = PageSize * (k - 1)

\* C1 witness: offset 12 is requested after fetch_page returned None for 0
C1_Witness ==
  /\ visited = <<0, PageSize>>
  /\ PageAt(0).fails >= Retries
  /\ pc = "fetch"

\* C2: when fetch_page returns it has made exactly min(1 + failures, 3) GETs,
\* failures being the failed attempts before the first success; it returns
\* the text of the first successful attempt, None after 3 failed attempts,
\* and no exception of a failed attempt escapes it.
C2_RetryBudget ==
  /\ gets <= Retries
  /\ exc \notin FailureKinds
  /\ pc = "check" =>
       LET failures == PageAt(start).fails
       IN  /\ gets = Min(1 + failures, Retries)
           /\ failed = Min(failures, Retries)
           /\ failures < Retries => html = PageAt(start).html
           /\ failures >= Retries => html = None

\* C2 witness: fetch_page returns None after three failed attempts
C2_Witness ==
  /\ pc = "check"
  /\ gets = Retries
  /\ failed = Retries
  /\ html = None

\* the site answers offset o, within the retry budget, with a page that has
\* no matching rows
YieldsNoRows(o) ==
  /\ catalog[o].fails < Retries
  /\ Truthy(catalog[o].html)
  /\ catalog[o].html.rows = <<>>

\* C3: whenever an offset at or ahead of the current one yields zero
\* matching rows, the walk ends after finitely many steps.
C3_WalkTerminates ==
  (\E o \in Offsets : o >= start /\ YieldsNoRows(o)) ~> ~InWalk

\* C3 witness: the walk went past offset 0 and ended at a page without rows
C3_Witness ==
  /\ ~InWalk
  /\ endedBy = "no_rows"
  /\ start > 0
  /\ YieldsNoRows(start)

\* C4: when fetch_page returned None the walker prints the skip line, appends
\* nothing, advances the offset by PageSize and goes on with the loop: it
\* neither leaves the loop nor raises.
C4_FailedPageSkipped ==
  [][(pc = "check" /\ html.isNone) =>
       /\ results' = results
       /\ start' = start + PageSize
       /\ pc' = "loop"
       /\ skips' = skips + 1
       /\ exc' = ""
       /\ endedBy' = ""]_vars

\* C4 witness: offset 0 failed, nothing was appended, the walker is at the
\* top of the loop with offset 12
C4_Witness ==
  /\ pc = "loop"
  /\ html.isNone
  /\ start = PageSize
  /\ visited = <<0>>
  /\ results = <<>>

\* C5: a row without the title link is not skipped: the for loop stops there
\* with an unhandled AttributeError, after which nothing more happens: no
\* offset is fetched, the walk returns nothing, no file is written.
C5_MalformedRowAborts ==
  /\ [][(pc = "rows" /\ rowIdx <= Len(rows)
           /\ ~TitleTag(rows[rowIdx]).present) =>
          (pc' = "raised" /\ exc' = "AttributeError")]_vars
  /\ [][exc # "AttributeError"]_vars
  /\ [](exc = "AttributeError" =>
          /\ pc = "raised"
          /\ ~returned
          /\ data = <<>>
          /\ ~jsonFile.written
          /\ ~csvFile.written
          /\ summary = -1)

\* C5 witness: the walk aborted on the first row of the second page, with a
\* record of the first page already accumulated
C5_Witness ==
  /\ exc = "AttributeError"
  /\ start = PageSize
  /\ rowIdx = 1
  /\ results # <<>>

\* C6 (as claimed): whenever the walk returned, an empty ResultSet included,
\* the program ends normally having written both files and printed the
\* number of records.
C6_BothOutputsWritten ==
  (returned /\ pc \in {"exit", "raised"}) =>
    /\ pc = "exit"
    /\ jsonFile.written
    /\ csvFile.written
    /\ summary = Len(data)

\* the catalog has exactly one page with rows: two rows, no next-page
\* control, delivered within the retry budget
OnePageTwoRows ==
  /\ catalog[0].fails < Retries
  /\ Truthy(catalog[0].html)
  /\ Len(catalog[0].html.rows) = 2
  /\ ~catalog[0].html.next
  /\ \A o \in Offsets \ {0} : catalog[o].html.rows = <<>>

\* C7 (as claimed): in that catalog the walk fetches offset 0 only, returns
\* 2 records and ends by the zero-rows check of offset 12.
C7_EndsByZeroRowsCheck ==
  (OnePageTwoRows /\ returned) =>
    /\ visited = <<0>>
    /\ Len(data) = 2
    /\ endedBy = "no_rows"

\* C7 (amended): in that catalog a walk that returns has fetched offset 0
\* only, returns exactly the records of the page's two rows, and ends at
\* offset 0 by the missing next-page control; offset 12 is never requested.
C7_EndsByMissingNextControl ==
  (OnePageTwoRows /\ returned) =>
    /\ visited = <<0>>
    /\ start = 0
    /\ data = <<ExtractRow(catalog[0].html.rows[1]).rec,
                ExtractRow(catalog[0].html.rows[2]).rec>>
    /\ endedBy = "no_next"

\* C7 witness: such a run, finished
C7_Witness ==
  /\ OnePageTwoRows
  /\ returned
  /\ pc = "exit"
  /\ Len(data) = 2

\* C8 (as claimed): the walk only ever ends normally by the zero-rows check.
C8_OnlyZeroRowsEndsWalk == returned => endedBy = "no_rows"

\* C8 (amended): the walk ends normally in exactly two ways, both at a
\* fetched page: the page has no rows, or it has rows, all of them
\* extracted, and no next-page control.
C8_TwoWaysToEnd ==
  /\ returned => endedBy \in {"no_rows", "no_next"}
  /\ endedBy # "" =>
       /\ ~InWalk
       /\ html = PageAt(start).html
       /\ Truthy(html)
       /\ Last(visited) = start
  /\ endedBy = "no_rows" => html.rows = <<>>
  /\ endedBy = "no_next" =>
       /\ html.rows # <<>>
       /\ ~html.next
       /\ rowIdx = Len(html.rows) + 1

\* C8 witness: a walk that returned because the page had no next control
C8_Witness ==
  /\ returned
  /\ endedBy = "no_next"

\* C9 (as claimed): a row that has its title link always yields a record and
\* the loop goes on, whatever else the row holds.
C9_TitleLinkSuffices ==
  [][(pc = "rows" /\ rowIdx <= Len(rows) /\ TitleTag(rows[rowIdx]).present) =>
       /\ pc' = "rows"
       /\ Len(results') = Len(results) + 1]_vars

\* C9 (amended): a row yields a record, and the loop goes on, exactly when
\* it has the title link, the link has an href that urljoin can parse, and
\* the row has at least two general-info cells; any other row ends the
\* program with an unhandled exception.
C9_RowRequirements ==
  [][(pc = "rows" /\ rowIdx <= Len(rows)) =>
       LET row == rows[rowIdx]
           ok == /\ row.titleCell
                 /\ row.link.present
                 /\ row.link.hasHref
                 /\ row.link.href.netloc # "["
                 /\ Len(row.cols) >= 2
       IN  /\ ok => /\ pc' = "rows"
                    /\ rowIdx' = rowIdx + 1
                    /\ Len(results') = Len(results) + 1
                    /\ exc' = ""
           /\ ~ok => /\ pc' = "raised"
                     /\ exc' # ""
                     /\ results' = results]_vars

\* C9 witness: a row with three general-info cells, no key tags and an
\* empty link text has been extracted
C9_Witness ==
  /\ pc = "rows"
  /\ rowIdx = Len(rows) + 1
  /\ Len(results) = Len(rows)
  /\ Len(Last(rows).cols) = 3
  /\ Last(rows).tags = <<>>
  /\ Last(rows).link.text = <<>>

HasVisibleChar(text) == \E k \in 1..Len(text) : text[k] \notin Whitespace

\* C10 (as claimed): every record accumulated has a non-empty name, an
\* absolute url and a testTypes field.
C10_NameNeverEmpty ==
  \A k \in 1..Len(results) :
    /\ results[k].name # <<>>
    /\ IsAbsolute(results[k].url)
    /\ "testTypes" \in DOMAIN results[k]

\* C10 (amended): every record accumulated has an absolute url, a testTypes
\* sequence, and as name the link text without surrounding whitespace, which
\* is empty exactly when the link text has no visible character.
C10_RecordShape ==
  /\ \A k \in 1..Len(results) :
       /\ IsAbsolute(results[k].url)
       /\ "testTypes" \in DOMAIN results[k]
       /\ DOMAIN results[k].testTypes = 1..Len(results[k].testTypes)
       /\ results[k].name # <<>> =>
            /\ Head(results[k].name) \notin Whitespace
            /\ Last(results[k].name) \notin Whitespace
  /\ (pc = "rows" /\ Len(results) >= rowIdx - 1) =>
       \A j \in 1..(rowIdx - 1) :
         LET rec == results[Len(results) - (rowIdx - 1) + j]
         IN  rec.name # <<>> <=> HasVisibleChar(rows[j].link.text)

\* C10 witness: a record with an empty name, from a whitespace-only link
\* text, has been accumulated
C10_Witness ==
  /\ results # <<>>
  /\ Last(results).name = <<>>
  /\ pc = "rows"
  /\ rows[rowIdx - 1].link.text = <<" ">>

IsPrefix(s, t) == Len(s) <= Len(t) /\ SubSeq(t, 1, Len(s)) = s

\* the page of offset o was delivered within the retry budget, as markup
Fetched(o) == PageAt(o).fails < Retries /\ Truthy(PageAt(o).html)

\* the records of page o's rows, in row order; none for a page not fetched
PageRecords(o) ==
  IF Fetched(o)
    THEN [i \in 1..Len(PageAt(o).html.rows) |->
            ExtractRow(PageAt(o).html.rows[i]).rec]
    ELSE <<>>

RECURSIVE WalkRecords(_)
WalkRecords(offsets) ==
  IF offsets = <<>> THEN <<>>
  ELSE PageRecords(Head(offsets)) \o WalkRecords(Tail(offsets))

\* C11: results only grows at its end (every step leaves the earlier
\* accumulator a prefix of the later one), and what the walk returns is the
\* records of the rows of the fetched pages visited, page after page in
\* offset order and row after row, each once; failed pages add nothing.
C11_AppendOnlyInTraversalOrder ==
  /\ [][IsPrefix(results, results')]_vars
  /\ [](returned => data = WalkRecords(visited))
  /\ []((pc = "rows" /\ Len(visited) > 0) =>
          results = WalkRecords(SubSeq(visited, 1, Len(visited) - 1))
                    \o SubSeq(PageRecords(start), 1, rowIdx - 1))

\* C11 witness: the walk returned the records of two pages, the first with
\* two different rows
C11_Witness ==
  /\ returned
  /\ visited = <<0, PageSize>>
  /\ Len(data) = 3
  /\ data[1].entityId = "e3"
  /\ data[2].entityId = "e1"

\* reading the document form back: the value a JSON object holds for a key
JsonValue(obj, key) ==
  obj[CHOOSE i \in 1..Len(obj) : obj[i][1] = key][2]

JsonLoad(body) ==
  [i \in 1..Len(body) |->
     [entityId |-> JsonValue(body[i], "entityId"),
      name |-> JsonValue(body[i], "name"),
      url |-> JsonValue(body[i], "url"),
      remoteTesting |-> JsonValue(body[i], "remoteTesting"),
      adaptiveIrt |-> JsonValue(body[i], "adaptiveIrt"),
      testTypes |-> JsonValue(body[i], "testTypes")]]

\* the table form holds the records of d, in order, testTypes comma-joined
TableHolds(d) ==
  /\ csvFile.written
  /\ csvFile.header = Fields
  /\ Len(csvFile.body) = Len(d)
  /\ \A k \in 1..Len(d) :
       csvFile.body[k] =
         <<d[k].entityId, d[k].name, d[k].url, d[k].remoteTesting,
           d[k].adaptiveIrt, Join(d[k].testTypes)>>

\* C12 (as claimed): for every ResultSet the walk returns, once the program
\* has ended the document form reads back as that ResultSet, field by field
\* and in order, and the table form holds one row per record, in order, with
\* the same fields and testTypes comma-joined.
C12_OutputsMatchResultSet ==
  (returned /\ pc \in {"exit", "raised"}) =>
    /\ jsonFile.written
    /\ JsonLoad(jsonFile.body) = data
    /\ TableHolds(data)

\* what holds of the program: the same, for a ResultSet that is not empty
C12_NonEmptyOutputsMatch ==
  (returned /\ pc \in {"exit", "raised"} /\ data # <<>>) =>
    /\ pc = "exit"
    /\ jsonFile.written
    /\ JsonLoad(jsonFile.body) = data
    /\ TableHolds(data)

\* the record accumulated for row j of the page being extracted
RecordOfRow(j) == results[Len(results) - (rowIdx - 1) + j]

\* C13: for every extracted row remoteTesting tells whether the first
\* general-info cell holds a positive marker and adaptiveIrt whether the
\* second does, each independently of the other.
C13_CapabilityFlags ==
  (pc = "rows" /\ Len(results) >= rowIdx - 1) =>
    \A j \in 1..(rowIdx - 1) :
      /\ RecordOfRow(j).remoteTesting = rows[j].cols[1]
      /\ RecordOfRow(j).adaptiveIrt = rows[j].cols[2]

\* C13 witness: a row with the marker in its first cell and none in its
\* second was extracted as remoteTesting and not adaptiveIrt
C13_Witness ==
  /\ pc = "rows"
  /\ rowIdx = Len(rows) + 1
  /\ Len(results) = Len(rows)
  /\ Last(rows).cols = <<TRUE, FALSE>>
  /\ Last(rows).entityId = "e9"
  /\ Last(results).remoteTesting
  /\ ~Last(results).adaptiveIrt

\* a text without its whitespace characters at either end
Trimmed(text, of) ==
  /\ of = <<>> \/ (Head(of) \notin Whitespace /\ Last(of) \notin Whitespace)
  /\ \E a, b \in 0..Len(text) :
       /\ a + b + Len(of) = Len(text)
       /\ SubSeq(text, a + 1, a + Len(of)) = of
       /\ \A k \in (1..a) \cup ((Len(text) - b + 1)..Len(text)) :
            text[k] \in Whitespace

\* the tags " A", "B", "A" of the row space
TagsABA == << <<" ", "A">>, <<"B">>, <<"A">> >>

\* C14: for every extracted row testTypes holds the trimmed text of each key
\* tag of the row, in document order, repetitions kept (as many entries as
\* tags; A, B, A give [A, B, A]), and the row's testTypes cell of the table
\* output is those texts joined with commas (A,B,A).
C14_TestTypesKeepOrderAndDuplicates ==
  /\ (pc = "rows" /\ Len(results) >= rowIdx - 1) =>
       \A j \in 1..(rowIdx - 1) :
         /\ Len(RecordOfRow(j).testTypes) = Len(rows[j].tags)
         /\ \A i \in 1..Len(rows[j].tags) :
              Trimmed(rows[j].tags[i], RecordOfRow(j).testTypes[i])
         /\ rows[j].tags = TagsABA =>
              RecordOfRow(j).testTypes = << <<"A">>, <<"B">>, <<"A">> >>
  /\ csvFile.written =>
       /\ Len(csvFile.body) = Len(data)
       /\ \A k \in 1..Len(data) :
            /\ csvFile.body[k][6] = Join(data[k].testTypes)
            /\ data[k].testTypes = << <<"A">>, <<"B">>, <<"A">> >> =>
                 csvFile.body[k][6] = <<"A", ",", "B", ",", "A">>
            /\ data[k].testTypes = <<>> => csvFile.body[k][6] = <<>>

\* C14 witness: the table output has the cell A,B,A for a row whose tags
\* are " A", "B", "A"
C14_Witness ==
  /\ pc = "exit"
  /\ Last(rows).tags = TagsABA
  /\ Last(data).testTypes = << <<"A">>, <<"B">>, <<"A">> >>
  /\ Last(csvFile.body)[6] = <<"A", ",", "B", ",", "A">>

\* C15 (as claimed): before every fetch_page call but the first the walker
\* has made the 2-unit pause exactly once since the call before, whether the
\* page of that call was fetched or failed and was skipped.
C15_PauseAfterEveryPage ==
  /\ Len(pauseLog) = Len(visited)
  /\ \A k \in 2..Len(pauseLog) : pauseLog[k] = 1

\* C15 (amended): the walker makes the 2-unit pause exactly once between two
\* consecutive fetch_page calls when the earlier page was fetched (as
\* markup, with rows and a next-page control), and not at all when the
\* earlier page failed or came back empty and was skipped; none precedes the
\* first call.
C15_PauseAfterFetchedPageOnly ==
  /\ Len(pauseLog) = Len(visited)
  /\ \A k \in 1..Len(pauseLog) :
       pauseLog[k] = IF k > 1 /\ Fetched(visited[k - 1]) THEN 1 ELSE 0
  /\ pauses \in {0, 1}
  /\ (pauses = 1 /\ pc = "loop") => Fetched(Last(visited))

\* C15 witness: offset 12 is requested after one pause, offset 0 having been
\* fetched and its rows extracted
C15_Witness ==
  /\ visited = <<0, PageSize>>
  /\ pauseLog = <<0, 1>>
  /\ results # <<>>
  /\ pc = "fetch"

\* C16: within one fetch_page call every failed attempt brings, in the same
\* step, exactly one diagnostic line and exactly one 5-unit wait, so both
\* counts equal the number of failed attempts; the third failed attempt is
\* no exception: fetch_page returns None after three lines and three waits.
C16_DiagnosticAndWaitPerFailure ==
  /\ [][(gets' = gets + 1 /\ pc' # "check") =>
          (diags' = diags + 1 /\ waits' = waits + 1)]_vars
  /\ [][(gets' = gets + 1 /\ pc' = "check") =>
          (diags' = diags /\ waits' = waits)]_vars
  /\ [](pc \in {"fetch", "check"} =>
          /\ diags = gets - (IF pc = "check" /\ ~html.isNone THEN 1 ELSE 0)
          /\ waits = diags)
  /\ [](pc = "check" =>
          /\ diags = Min(PageAt(start).fails, Retries)
          /\ waits = Min(PageAt(start).fails, Retries))

\* C16 witness: fetch_page has returned None after three failed attempts,
\* three diagnostic lines and three waits
C16_Witness ==
  /\ pc = "check"
  /\ html.isNone
  /\ gets = Retries
  /\ diags = Retries
  /\ waits = Retries

\* fetch_page returns None for every offset from o on
FailsFrom(o) ==
  \A q \in Offsets : q >= o => catalog[q].fails >= Retries

\* C17: the walk ends only at a page fetched as markup (by one of the two
\* breaks) or by an exception of the row extraction; a failed page never
\* ends it.  So once every offset from the current one on fails, the walk
\* stays in its loop for good, each skip moving it to the next offset, with
\* no limit on the pages skipped in a row.
C17_FailuresNeverEndWalk ==
  /\ [](~InWalk =>
          \/ /\ endedBy \in {"no_rows", "no_next"}
             /\ Fetched(Last(visited))
             /\ Last(visited) = start
          \/ /\ pc = "raised"
             /\ endedBy = ""
             /\ ~returned
             /\ exc \in {"AttributeError", "KeyError", "ValueError", "IndexError"}
             /\ Fetched(start))
  /\ [](FailsFrom(start) => (InWalk /\ pc # "rows"))
  /\ [][(pc = "check" /\ FailsFrom(start)) =>
          (pc' = "loop" /\ start' = start + PageSize /\ FailsFrom(start'))]_vars
  /\ \A o \in Offsets :
       (start = o /\ FailsFrom(o)) ~> (start = o + PageSize /\ pc = "loop")

\* C17 witness: every offset has failed and been skipped, and the walker is
\* at the top of its loop for the next one
C17_Witness ==
  /\ FailsFrom(0)
  /\ pc = "loop"
  /\ Len(visited) = MaxPages
  /\ skips = MaxPages
  /\ start = PageSize * MaxPages
  /\ results = <<>>

\* C18: when a GET succeeds with empty text, fetch_page returns it at once
\* (no further attempt), and the walker treats it as it treats None: it
\* prints the skip line, appends nothing and advances the offset by
\* PageSize; the page is not parsed and does not end the walk as a page
\* without rows would.
C18_EmptyMarkupSkipped ==
  /\ [][(pc = "check" /\ ~html.isNone /\ html.empty) =>
          /\ pc' = "loop"
          /\ start' = start + PageSize
          /\ results' = results
          /\ skips' = skips + 1
          /\ endedBy' = ""
          /\ rows' = rows]_vars
  /\ []((pc = "check" /\ PageAt(start).fails < Retries
           /\ PageAt(start).html = EmptyText) =>
          /\ html = EmptyText
          /\ gets = PageAt(start).fails + 1)
  /\ []((endedBy = "no_rows") => PageAt(start).html # EmptyText)

\* C18 witness: offset 0 answered its first GET with empty text and was
\* skipped; the walker is at the top of its loop with offset 12
C18_Witness ==
  /\ pc = "loop"
  /\ html = EmptyText
  /\ catalog[0].fails = 0
  /\ start = PageSize
  /\ visited = <<0>>
  /\ skips = 1
  /\ endedBy = ""

====
